---- MODULE Spec2Model ----
(***************************************************************************)
(* Engagement session of the Content component                             *)
(* (frontend/react-web/src/Content.js): the isEngaged effect, the audio    *)
(* graph setup, the WebSocket connect / timeout / retry logic and the      *)
(* channel and device callbacks, as an interleaving of event-loop tasks.   *)
(***************************************************************************)
EXTENDS Integers, FiniteSets, Sequences, TLC

\* ---- bounds ----
MaxCycles == 2      \* engagement cycles (Engage clicks) explored
MaxSockets == 3     \* WebSocket objects created in one run
MaxInbound == 2     \* frames the channels deliver in one run
MaxBlocks == 2      \* audio blocks the microphone produces in one run
GridRefine == 2     \* float samples on a grid of 1 / (GridRefine * 32768)
Over == 4           \* grid points beyond -1 and +1 among the float samples

\* the scale factors of floatToPcm16 (line 63) and the divisor of
\* pcm16ToFloat (line 79)
PCM_NEG_SCALE == 32768
PCM_POS_SCALE == 32767
PCM_DIV == 32768

Cycles == 1..MaxCycles
Sockets == 1..MaxSockets

\* close codes of a CloseEvent: normal closure, and the abnormal closure a
\* failed or dropped connection reports
NORMAL_CLOSURE == 1000
ABNORMAL_CLOSURE == 1006
\* code recorded for a close() call that names no code (line 251)
NO_CODE == 1005

VARIABLES
    isEngaged,            \* useState isEngaged
    effectEngaged,        \* the isEngaged value the effect last ran for
    isTalking,            \* useState isTalking
    cycle,                \* number of engaged effect runs so far
    isComponentMounted,   \* per engaged effect run: its isComponentMounted
    capTalking,           \* per engaged effect run: isTalking in its closure
    pc,                   \* per engaged effect run: position of initAudio
    awaitCtx,             \* per engaged effect run: the context it awaits
    ctxState,             \* per AudioContext: its state
    ctxClosing,           \* AudioContexts with a close() not yet resolved
    moduleLoaded,         \* AudioContexts whose addModule resolved
    nodeConnected,        \* AudioContexts whose worklet node is connected
    audioContextRef,      \* audioContextRef.current (0 = null)
    audioWorkletNodeRef,  \* audioWorkletNodeRef.current: its context (0 = null)
    ws,                   \* per WebSocket: readyState
    wsRef,                \* wsRef.current (0 = null)
    connectionTimeout,    \* per WebSocket: its connectionTimeout timer
    owner,                \* per WebSocket: the effect run whose closure made it
    everOpen,             \* WebSockets that reached OPEN
    closeReq,             \* per WebSocket: code of the local close() call
    closeEv,              \* per WebSocket: code of its close event
    micPc,                \* per WebSocket: position of its initMicrophone
    liveStreams,          \* WebSockets whose getUserMedia stream is live
    captureOn,            \* per WebSocket: context its capture graph is on
    wsCtorThrows,         \* whether new WebSocket(apiUrl, apiKey) throws
    messages,             \* useState messages: the transcript
    port,                 \* per AudioContext: posts to its worklet node's port
    received,             \* frames the channels have delivered to onmessage
    captured,             \* audio blocks handed to onaudioprocess so far
    sent,                 \* frames passed to send(): channel and block
    dropped,              \* blocks onaudioprocess returned on without sending
    byteBuf,              \* codec: a buffer of bytes (16-bit little-endian PCM)
    floatBuf,             \* codec: a Float32Array, as numerators over FloatDen
    pcmBuf,               \* codec: an Int16Array
    outBuf,               \* codec: what the second conversion returned
    codecPc               \* codec: which conversion has been applied last

vars == << isEngaged, effectEngaged, isTalking, cycle, isComponentMounted,
           capTalking, pc, awaitCtx, ctxState, ctxClosing, moduleLoaded,
           nodeConnected, audioContextRef, audioWorkletNodeRef, ws, wsRef,
           connectionTimeout, owner, everOpen, closeReq, closeEv, micPc,
           liveStreams, captureOn, wsCtorThrows, messages, port, received,
           captured, sent, dropped, byteBuf, floatBuf, pcmBuf, outBuf,
           codecPc >>

audioVars == << ctxState, ctxClosing, moduleLoaded, nodeConnected,
                audioContextRef, audioWorkletNodeRef >>
taskVars == << cycle, isComponentMounted, capTalking, pc, awaitCtx >>
wsVars == << ws, wsRef, connectionTimeout, owner, everOpen, closeReq, closeEv >>
micVars == << micPc, liveStreams, captureOn >>
dispatchVars == << messages, port, received >>
captureVars == << captured, sent, dropped >>
codecVars == << byteBuf, floatBuf, pcmBuf, outBuf, codecPc >>
sessionVars == << isEngaged, effectEngaged, isTalking, taskVars, audioVars,
                  wsVars, micVars, wsCtorThrows, dispatchVars, captureVars >>

\* ---- state after the component has mounted (first effect run, not engaged)
SessionInit ==
    /\ isEngaged = FALSE
    /\ effectEngaged = FALSE
    /\ isTalking = FALSE
    /\ cycle = 0
    /\ isComponentMounted = [k \in Cycles |-> FALSE]
    /\ capTalking = [k \in Cycles |-> FALSE]
    /\ pc = [k \in Cycles |-> "idle"]
    /\ awaitCtx = [k \in Cycles |-> 0]
    /\ ctxState = [c \in Cycles |-> "none"]
    /\ ctxClosing = {}
    /\ moduleLoaded = {}
    /\ nodeConnected = {}
    /\ audioContextRef = 0
    /\ audioWorkletNodeRef = 0
    /\ ws = [n \in Sockets |-> "NONE"]
    /\ wsRef = 0
    /\ connectionTimeout = [n \in Sockets |-> "none"]
    /\ owner = [n \in Sockets |-> 0]
    /\ everOpen = {}
    /\ closeReq = [n \in Sockets |-> 0]
    /\ closeEv = [n \in Sockets |-> 0]
    /\ micPc = [n \in Sockets |-> "none"]
    /\ liveStreams = {}
    /\ captureOn = [n \in Sockets |-> 0]
    /\ wsCtorThrows \in BOOLEAN
    /\ messages = << >>
    /\ port = [c \in Cycles |-> << >>]
    /\ received = << >>
    /\ captured = 0
    /\ sent = << >>
    /\ dropped = {}

\* no conversion is under way
CodecIdle ==
    /\ byteBuf = << >>
    /\ floatBuf = << >>
    /\ pcmBuf = << >>
    /\ outBuf = << >>
    /\ codecPc = "idle"

Init == SessionInit /\ CodecIdle

\* ---- cleanup (lines 200-221) ----
\* lines 204-207: close the current channel when it is OPEN or CONNECTING
cleanupCloses ==
    wsRef # 0 /\ ws[wsRef] \in {"OPEN", "CONNECTING"}

cleanupWs ==
    IF cleanupCloses THEN [ws EXCEPT ![wsRef] = "CLOSING"] ELSE ws

cleanupReq ==
    IF cleanupCloses THEN [closeReq EXCEPT ![wsRef] = NORMAL_CLOSURE] ELSE closeReq

\* lines 210-220: disconnect the worklet node, ask the context to close
cleanupAudio ==
    IF audioContextRef # 0 /\ ctxState[audioContextRef] # "closed"
    THEN /\ nodeConnected' = nodeConnected \ {audioWorkletNodeRef}
         /\ ctxClosing' = ctxClosing \cup {audioContextRef}
    ELSE UNCHANGED << nodeConnected, ctxClosing >>

\* The destructor of an engaged effect run (lines 340-343) followed by the
\* body of the not-engaged run (lines 223-226): cleanup runs twice, and the
\* second run finds the channel CLOSING and the context close pending, so
\* it changes nothing more.
cleanup ==
    /\ ws' = cleanupWs
    /\ closeReq' = cleanupReq
    /\ cleanupAudio

\* ---- connectWebSocket (lines 242-331), called by the closure of run k ----
HasFreeSocket == \E n \in Sockets : ws[n] = "NONE"

NextSocket ==
    CHOOSE n \in Sockets :
        ws[n] = "NONE" /\ \A m \in Sockets : m < n => ws[m] # "NONE"

connectWebSocket(k, wsBase, timerBase) ==
    IF wsCtorThrows
    THEN \* line 245 throws, line 328 logs: nothing is assigned
         /\ ws' = wsBase
         /\ connectionTimeout' = timerBase
         /\ UNCHANGED << wsRef, owner >>
    ELSE /\ HasFreeSocket
         /\ ws' = [wsBase EXCEPT ![NextSocket] = "CONNECTING"]
         /\ wsRef' = NextSocket
         /\ connectionTimeout' = [timerBase EXCEPT ![NextSocket] = "pending"]
         /\ owner' = [owner EXCEPT ![NextSocket] = k]

\* ---- initAudio after initAudioWorklet returned ok (lines 233-334) ----
initAudioDone(k, ok) ==
    /\ pc' = [pc EXCEPT ![k] = IF ok THEN "done" ELSE "failed"]
    /\ IF ~ok \/ ~isComponentMounted[k]
       THEN /\ isEngaged' = IF isComponentMounted[k] THEN FALSE ELSE isEngaged
            /\ UNCHANGED wsVars
       ELSE /\ connectWebSocket(k, ws, connectionTimeout)
            /\ UNCHANGED << isEngaged, everOpen, closeReq, closeEv >>

\* ---- initAudioWorklet up to its first await (lines 88-100) ----
initAudioWorkletStart(k) ==
    IF audioContextRef # 0 /\ ctxState[audioContextRef] # "closed"
    THEN \* line 91: await the close of the existing context
         /\ ctxClosing' = ctxClosing \cup {audioContextRef}
         /\ pc' = [pc EXCEPT ![k] = "closeOld"]
         /\ awaitCtx' = [awaitCtx EXCEPT ![k] = audioContextRef]
         /\ UNCHANGED << ctxState, audioContextRef >>
    ELSE \* lines 95-100: new context, await addModule
         /\ ctxState' = [ctxState EXCEPT ![k] = "suspended"]
         /\ audioContextRef' = k
         /\ pc' = [pc EXCEPT ![k] = "addModule"]
         /\ UNCHANGED << ctxClosing, awaitCtx >>

\* ---- the Engage / Disengage link (lines 365-370) and the effect it
\* ---- triggers (lines 197-344), flushed with the click
ClickEngage ==
    /\ ~isEngaged /\ ~effectEngaged
    /\ cycle < MaxCycles
    /\ isEngaged' = TRUE
    /\ effectEngaged' = TRUE
    /\ cycle' = cycle + 1
    /\ isComponentMounted' = [isComponentMounted EXCEPT ![cycle + 1] = TRUE]
    /\ capTalking' = [capTalking EXCEPT ![cycle + 1] = isTalking]
    /\ initAudioWorkletStart(cycle + 1)
    /\ UNCHANGED << isTalking, moduleLoaded, nodeConnected, audioWorkletNodeRef,
                    wsVars, micVars, wsCtorThrows,
                    dispatchVars, captureVars, codecVars >>

ClickDisengage ==
    /\ isEngaged /\ effectEngaged
    /\ isEngaged' = FALSE
    /\ isTalking' = FALSE
    /\ effectEngaged' = FALSE
    /\ isComponentMounted' = [isComponentMounted EXCEPT ![cycle] = FALSE]
    /\ cleanup
    /\ UNCHANGED << cycle, capTalking, pc, awaitCtx, ctxState, moduleLoaded,
                    audioContextRef, audioWorkletNodeRef, wsRef,
                    connectionTimeout, owner, everOpen, closeEv, micVars,
                    wsCtorThrows,
                    dispatchVars, captureVars, codecVars >>

\* the effect run that follows a setEngaged(false) made by a callback
\* (line 236 or line 325)
Effect ==
    /\ ~isEngaged /\ effectEngaged
    /\ effectEngaged' = FALSE
    /\ isComponentMounted' = [isComponentMounted EXCEPT ![cycle] = FALSE]
    /\ cleanup
    /\ UNCHANGED << isEngaged, isTalking, cycle, capTalking, pc, awaitCtx,
                    ctxState, moduleLoaded, audioContextRef,
                    audioWorkletNodeRef, wsRef, connectionTimeout, owner,
                    everOpen, closeEv, micVars, wsCtorThrows,
                    dispatchVars, captureVars, codecVars >>

\* ---- AudioContext.close() resolves ----
CtxCloseDone(c) ==
    /\ c \in ctxClosing
    /\ ctxState' = [ctxState EXCEPT ![c] = "closed"]
    /\ ctxClosing' = ctxClosing \ {c}
    /\ UNCHANGED << isEngaged, effectEngaged, isTalking, taskVars, moduleLoaded,
                    nodeConnected, audioContextRef, audioWorkletNodeRef,
                    wsVars, micVars, wsCtorThrows,
                    dispatchVars, captureVars, codecVars >>

\* ---- initAudioWorklet resumes after line 91 (lines 95-100) ----
AfterCloseOld(k) ==
    /\ pc[k] = "closeOld"
    /\ ctxState[awaitCtx[k]] = "closed"
    /\ ctxState' = [ctxState EXCEPT ![k] = "suspended"]
    /\ audioContextRef' = k
    /\ pc' = [pc EXCEPT ![k] = "addModule"]
    /\ UNCHANGED << isEngaged, effectEngaged, isTalking, cycle,
                    isComponentMounted, capTalking, awaitCtx, ctxClosing,
                    moduleLoaded, nodeConnected, audioWorkletNodeRef, wsVars,
                    micVars, wsCtorThrows,
                    dispatchVars, captureVars, codecVars >>

\* ---- initAudioWorklet resumes after line 100 (lines 101-130) ----
\* ok: addModule resolved; started: the context began running by itself
AddModuleDone(k, ok, started) ==
    /\ pc[k] = "addModule"
    /\ UNCHANGED << effectEngaged, isTalking, cycle, isComponentMounted,
                    capTalking, ctxClosing, audioContextRef, micVars,
                    wsCtorThrows,
                    dispatchVars, captureVars, codecVars >>
    /\ IF ~ok
       THEN /\ ~started
            /\ initAudioDone(k, FALSE)
            /\ UNCHANGED << awaitCtx, ctxState, moduleLoaded, nodeConnected,
                            audioWorkletNodeRef >>
       ELSE /\ moduleLoaded' = moduleLoaded \cup {k}
            /\ IF audioContextRef \notin (moduleLoaded \cup {k})
               THEN \* line 104 throws: the processor is not registered there
                    /\ ~started
                    /\ initAudioDone(k, FALSE)
                    /\ UNCHANGED << awaitCtx, ctxState, nodeConnected,
                                    audioWorkletNodeRef >>
               ELSE /\ audioWorkletNodeRef' = audioContextRef
                    /\ nodeConnected' = nodeConnected \cup {audioContextRef}
                    /\ CASE ctxState[audioContextRef] = "running" ->
                              /\ ~started
                              /\ initAudioDone(k, TRUE)
                              /\ UNCHANGED << awaitCtx, ctxState >>
                         [] ctxState[audioContextRef] = "closed" ->
                              \* line 121: resume() rejects
                              /\ ~started
                              /\ initAudioDone(k, FALSE)
                              /\ UNCHANGED << awaitCtx, ctxState >>
                         [] OTHER ->
                              IF started
                              THEN /\ ctxState' = [ctxState EXCEPT
                                                     ![audioContextRef] = "running"]
                                   /\ initAudioDone(k, TRUE)
                                   /\ UNCHANGED awaitCtx
                              ELSE /\ pc' = [pc EXCEPT ![k] = "resume"]
                                   /\ awaitCtx' = [awaitCtx EXCEPT
                                                     ![k] = audioContextRef]
                                   /\ UNCHANGED << isEngaged, ctxState, wsVars >>

\* ---- initAudioWorklet resumes after line 121 (lines 122-130) ----
ResumeDone(k) ==
    /\ pc[k] = "resume"
    /\ UNCHANGED << effectEngaged, isTalking, cycle, isComponentMounted,
                    capTalking, awaitCtx, ctxClosing, moduleLoaded,
                    nodeConnected, audioContextRef, audioWorkletNodeRef,
                    micVars, wsCtorThrows,
                    dispatchVars, captureVars, codecVars >>
    /\ IF ctxState[awaitCtx[k]] = "closed"
       THEN /\ initAudioDone(k, FALSE)
            /\ UNCHANGED ctxState
       ELSE /\ ctxState' = [ctxState EXCEPT ![awaitCtx[k]] = "running"]
            /\ initAudioDone(k, TRUE)

\* ---- the connectionTimeout callback (lines 248-254) ----
timerCloses ==
    wsRef # 0 /\ ws[wsRef] \in {"OPEN", "CONNECTING"}

Timer(n) ==
    /\ connectionTimeout[n] = "pending"
    /\ IF wsRef # 0 /\ ws[wsRef] # "OPEN"
       THEN /\ connectWebSocket(owner[n],
                   IF timerCloses THEN [ws EXCEPT ![wsRef] = "CLOSING"] ELSE ws,
                   [connectionTimeout EXCEPT ![n] = "fired"])
            /\ closeReq' = IF timerCloses
                           THEN [closeReq EXCEPT ![wsRef] = NO_CODE]
                           ELSE closeReq
       ELSE /\ connectionTimeout' = [connectionTimeout EXCEPT ![n] = "fired"]
            /\ UNCHANGED << ws, wsRef, owner, closeReq >>
    /\ UNCHANGED << isEngaged, effectEngaged, isTalking, taskVars, audioVars,
                    everOpen, closeEv, micVars, wsCtorThrows,
                    dispatchVars, captureVars, codecVars >>

\* ---- onopen (lines 256-260), up to the await in initMicrophone (line 140)
\* a clearTimeout that leaves the timer armed
clearTimeoutNoOp(n) ==
    connectionTimeout

clearTimeout(n) ==
    IF connectionTimeout[n] = "pending"
    THEN [connectionTimeout EXCEPT ![n] = "cleared"]
    ELSE connectionTimeout

\* an onopen that also clears the agent-speaking indicator
WsOpenClearsTalking(n) ==
    /\ ws[n] = "CONNECTING"
    /\ ws' = [ws EXCEPT ![n] = "OPEN"]
    /\ everOpen' = everOpen \cup {n}
    /\ connectionTimeout' = clearTimeout(n)
    /\ micPc' = [micPc EXCEPT ![n] = "awaiting"]
    /\ isTalking' = FALSE
    /\ UNCHANGED << isEngaged, effectEngaged, taskVars, audioVars,
                    wsRef, owner, closeReq, closeEv, liveStreams, captureOn,
                    wsCtorThrows, dispatchVars, captureVars, codecVars >>

WsOpen(n) ==
    /\ ws[n] = "CONNECTING"
    /\ ws' = [ws EXCEPT ![n] = "OPEN"]
    /\ everOpen' = everOpen \cup {n}
    /\ connectionTimeout' = clearTimeout(n)
    /\ micPc' = [micPc EXCEPT ![n] = "awaiting"]
    /\ UNCHANGED << isEngaged, effectEngaged, isTalking, taskVars, audioVars,
                    wsRef, owner, closeReq, closeEv, liveStreams, captureOn,
                    wsCtorThrows,
                    dispatchVars, captureVars, codecVars >>

\* ---- initMicrophone resumes after getUserMedia (lines 147-193) ----
\* granted: the stream is live and stays so (no line stops its tracks);
\* the capture graph is built on audioContextRef.current as it is now.
MicResult(n, granted) ==
    /\ micPc[n] = "awaiting"
    /\ IF granted
       THEN /\ micPc' = [micPc EXCEPT ![n] = "granted"]
            /\ liveStreams' = liveStreams \cup {n}
            /\ captureOn' = [captureOn EXCEPT ![n] =
                    IF ctxState[audioContextRef] = "closed"
                    THEN 0 ELSE audioContextRef]
       ELSE /\ micPc' = [micPc EXCEPT ![n] = "failed"]
            /\ UNCHANGED << liveStreams, captureOn >>
    /\ UNCHANGED << isEngaged, effectEngaged, isTalking, taskVars, audioVars,
                    wsVars, wsCtorThrows,
                    dispatchVars, captureVars, codecVars >>

\* ---- onmessage (lines 262-308) ----
Deliverable(n) ==
    ws[n] = "OPEN" \/ (ws[n] = "CLOSING" /\ n \in everOpen)

\* What a channel can deliver.  json: whether JSON.parse (line 264) accepts
\* the frame; event, speaker, data: the fields of the parsed chunk.
Frame(json, event, speaker, data) ==
    [json |-> json, event |-> event, speaker |-> speaker, data |-> data]

Speakers == {"user", "assistant"}
Texts == {"Hi", "Hello"}
PCM_DATA == "AAD/fw=="      \* base64 of PCM samples
NOT_BASE64 == "***"         \* a string atob (line 277) rejects

StopFrame == Frame(TRUE, "stop", "", "")
MediaFrame == Frame(TRUE, "media", "", PCM_DATA)
BadMediaFrame == Frame(TRUE, "media", "", NOT_BASE64)
TextFrames == {Frame(TRUE, "text", sp, d) : sp \in Speakers, d \in Texts}
UnparsableFrame == Frame(FALSE, "", "", "")
OtherFrame == Frame(TRUE, "ping", "", "")
Frames == {StopFrame, MediaFrame, BadMediaFrame, UnparsableFrame, OtherFrame}
              \cup TextFrames

\* port.postMessage({ type }) on audioWorkletNodeRef.current (lines 268-270,
\* 286-291); nothing is posted when the ref is null
postMessage(type) ==
    IF audioWorkletNodeRef # 0
    THEN [port EXCEPT ![audioWorkletNodeRef] = Append(@, type)]
    ELSE port

\* a stop handler that clears the indicator and posts nothing
onStopNoPost ==
    /\ isTalking' = FALSE
    /\ UNCHANGED << port, messages >>

\* lines 267-273: the stop event
onStop ==
    /\ port' = postMessage("stop")
    /\ isTalking' = FALSE
    /\ UNCHANGED messages

\* lines 276-298: the media event; atob throwing is caught at line 296.
\* isTalking at line 292 is the value the closure of run k captured.
onMedia(k, data) ==
    IF data = NOT_BASE64 \/ audioWorkletNodeRef = 0
    THEN UNCHANGED << port, isTalking, messages >>
    ELSE /\ port' = postMessage("data")
         /\ isTalking' = IF ~capTalking[k] THEN TRUE ELSE isTalking
         /\ UNCHANGED messages

\* lines 299-304: the text event
transcriptEntry(speaker, data) ==
    [isMine |-> speaker = "user", text |-> data]

\* a transcript update that puts the new entry first
setMessagesPrepend(entry) ==
    << entry >> \o messages

\* a transcript update that keeps only the new entry
setMessagesReplace(entry) ==
    << entry >>

setMessages(entry) ==
    Append(messages, entry)

onText(speaker, data) ==
    /\ messages' = setMessages(transcriptEntry(speaker, data))
    /\ UNCHANGED << port, isTalking >>

\* a handler in which a frame the parser rejects also clears the indicator
onmessageClearsOnError(k, m) ==
    IF ~m.json THEN isTalking' = FALSE /\ UNCHANGED << port, messages >>
    ELSE CASE m.event = "stop" -> onStop
           [] m.event = "media" -> onMedia(k, m.data)
           [] m.event = "text" -> onText(m.speaker, m.data)
           [] OTHER -> UNCHANGED << port, isTalking, messages >>

\* lines 262-308: a frame the parser rejects is logged at line 305, a chunk
\* with any other event tag matches no branch
onmessage(k, m) ==
    IF ~m.json THEN UNCHANGED << port, isTalking, messages >>
    ELSE CASE m.event = "stop" -> onStop
           [] m.event = "media" -> onMedia(k, m.data)
           [] m.event = "text" -> onText(m.speaker, m.data)
           [] OTHER -> UNCHANGED << port, isTalking, messages >>

WsMessage(n, m) ==
    /\ Deliverable(n)
    /\ Len(received) < MaxInbound
    /\ received' = Append(received, m)
    /\ onmessage(owner[n], m)
    /\ UNCHANGED << isEngaged, effectEngaged, taskVars, audioVars, wsVars,
                    micVars, wsCtorThrows, captureVars, codecVars >>

\* ---- onaudioprocess (lines 162-180) of the capture graph of stream n ----
\* The block is sent at once on wsRef.current when that is OPEN (line 176)
\* and the callback returns without keeping it otherwise (line 164).
\* a send test that only asks for a channel, whatever its readyState
channelAssigned ==
    wsRef # 0

channelOpen ==
    wsRef # 0 /\ ws[wsRef] = "OPEN"

AudioProcess(n) ==
    /\ captureOn[n] # 0
    /\ ctxState[captureOn[n]] = "running"
    /\ captured < MaxBlocks
    /\ captured' = captured + 1
    /\ IF channelOpen
       THEN /\ sent' = Append(sent, [ch |-> wsRef, blk |-> captured + 1])
            /\ UNCHANGED dropped
       ELSE /\ dropped' = dropped \cup {captured + 1}
            /\ UNCHANGED sent
    /\ UNCHANGED << isEngaged, effectEngaged, isTalking, taskVars, audioVars,
                    wsVars, micVars, wsCtorThrows, dispatchVars, codecVars >>

\* ---- the worklet port's onmessage (lines 110-114) ----
NeedData(c) ==
    /\ c \in nodeConnected
    /\ ctxState[c] = "running"
    /\ isTalking' = FALSE
    /\ UNCHANGED << isEngaged, effectEngaged, taskVars, audioVars, wsVars,
                    micVars, wsCtorThrows,
                    dispatchVars, captureVars, codecVars >>

\* ---- the channel closes: onerror when the connection failed (lines
\* ---- 310-314), then onclose (lines 316-327)
CloseCodes(n) ==
    IF n \in everOpen THEN {NORMAL_CLOSURE, ABNORMAL_CLOSURE}
    ELSE {ABNORMAL_CLOSURE}

\* an onclose that disengages whatever the close code is
oncloseAlwaysDisengages(n, code) ==
    /\ connectionTimeout' = clearTimeout(n)
    /\ isTalking' = FALSE
    /\ isEngaged' = FALSE

onclose(n, code) ==
    /\ connectionTimeout' = clearTimeout(n)
    /\ isTalking' = FALSE
    /\ isEngaged' = IF code # NORMAL_CLOSURE THEN isEngaged ELSE FALSE

WsClose(n, code) ==
    /\ ws[n] \in {"CONNECTING", "OPEN", "CLOSING"}
    /\ code \in CloseCodes(n)
    /\ ws' = [ws EXCEPT ![n] = "CLOSED"]
    /\ closeEv' = [closeEv EXCEPT ![n] = code]
    /\ onclose(n, code)
    /\ UNCHANGED << effectEngaged, taskVars, audioVars, wsRef, owner, everOpen,
                    closeReq, micVars, wsCtorThrows,
                    dispatchVars, captureVars, codecVars >>

Next ==
    \/ ClickEngage
    \/ ClickDisengage
    \/ Effect
    \/ \E c \in Cycles : CtxCloseDone(c)
    \/ \E k \in Cycles : AfterCloseOld(k)
    \/ \E k \in Cycles, ok \in BOOLEAN, started \in BOOLEAN :
          AddModuleDone(k, ok, started)
    \/ \E k \in Cycles : ResumeDone(k)
    \/ \E n \in Sockets : Timer(n)
    \/ \E n \in Sockets : WsOpen(n)
    \/ \E n \in Sockets, granted \in BOOLEAN : MicResult(n, granted)
    \/ \E n \in Sockets, m \in {StopFrame, MediaFrame} : WsMessage(n, m)
    \/ \E c \in Cycles : NeedData(c)
    \/ \E n \in Sockets, code \in {NORMAL_CLOSURE, ABNORMAL_CLOSURE} :
          WsClose(n, code)

Spec == Init /\ [][Next]_vars

\* ---- the inbound path: every kind of frame, over a session whose audio
\* ---- setup, socket constructor and microphone do not fail
InitDispatch ==
    Init /\ ~wsCtorThrows

NextDispatch ==
    \/ ClickEngage
    \/ ClickDisengage
    \/ Effect
    \/ \E c \in Cycles : CtxCloseDone(c)
    \/ \E k \in Cycles : AfterCloseOld(k)
    \/ \E k \in Cycles : AddModuleDone(k, TRUE, TRUE)
    \/ \E n \in Sockets : Timer(n)
    \/ \E n \in Sockets : WsOpen(n)
    \/ \E n \in Sockets : MicResult(n, TRUE)
    \/ \E n \in Sockets, m \in Frames : WsMessage(n, m)
    \/ \E c \in Cycles : NeedData(c)
    \/ \E n \in Sockets, code \in {NORMAL_CLOSURE, ABNORMAL_CLOSURE} :
          WsClose(n, code)

SpecDispatch == InitDispatch /\ [][NextDispatch]_vars

\* ---- the outbound path: the microphone producing blocks, over the same
\* ---- session
NextCapture ==
    \/ ClickEngage
    \/ ClickDisengage
    \/ Effect
    \/ \E c \in Cycles : CtxCloseDone(c)
    \/ \E k \in Cycles : AfterCloseOld(k)
    \/ \E k \in Cycles : AddModuleDone(k, TRUE, TRUE)
    \/ \E n \in Sockets : Timer(n)
    \/ \E n \in Sockets : WsOpen(n)
    \/ \E n \in Sockets : MicResult(n, TRUE)
    \/ \E n \in Sockets : AudioProcess(n)
    \/ \E n \in Sockets, code \in {NORMAL_CLOSURE, ABNORMAL_CLOSURE} :
          WsClose(n, code)

SpecCapture == InitDispatch /\ [][NextCapture]_vars

\* ---- the PCM codec (lines 59-82, 170-174) ----
\* A float sample is the rational num / FloatDen, held as its numerator.
FloatDen == GridRefine * PCM_DIV

Max(a, b) == IF a >= b THEN a ELSE b
Min(a, b) == IF a <= b THEN a ELSE b

\* line 62: Math.max(-1, Math.min(1, input[i]))
clamp(num) == Max(-FloatDen, Min(FloatDen, num))

\* line 63: the product s * k of the sample num / FloatDen with the scale k,
\* as the greatest integer not above it and whether it is that integer
scale(num, k) ==
    LET q == num \div GridRefine
        r == num % GridRefine
        t == q * k + (r * k) \div GridRefine
    IN [floor |-> t \div PCM_DIV,
        exact |-> (r * k) % GridRefine = 0 /\ t % PCM_DIV = 0]

\* storing a number in an Int16Array element (line 63): the fraction is
\* discarded (toward zero), then the integer is reduced modulo 2^16
ToIntegerFloor(p) == p.floor

ToInteger(p) ==
    IF p.floor >= 0 \/ p.exact THEN p.floor ELSE p.floor + 1

ToInt16(i) ==
    LET u == i % 65536 IN IF u >= 32768 THEN u - 65536 ELSE u

floatToPcm16(input) ==
    [i \in 1..Len(input) |->
        LET s == clamp(input[i])
        IN ToInt16(ToInteger(IF s < 0 THEN scale(s, PCM_NEG_SCALE)
                                      ELSE scale(s, PCM_POS_SCALE)))]

\* lines 170-174: dataView.setInt16(i * 2, pcm16[i], true)
setInt16BigEndian(pcm16) ==
    [j \in 1..(2 * Len(pcm16)) |->
        LET u == pcm16[(j + 1) \div 2] % 65536
        IN IF j % 2 = 1 THEN u \div 256 ELSE u % 256]

setInt16(pcm16) ==
    [j \in 1..(2 * Len(pcm16)) |->
        LET u == pcm16[(j + 1) \div 2] % 65536
        IN IF j % 2 = 1 THEN u % 256 ELSE u \div 256]

\* line 78: dataView.getInt16(i * 2, true)
getUint16(lo, hi) == lo + 256 * hi

getInt16(lo, hi) ==
    LET u == lo + 256 * hi IN IF u >= 32768 THEN u - 65536 ELSE u

\* lines 74-82: int16 / 32768.0, over buffer.byteLength / 2 samples (a last
\* odd byte is left out); the quotient is num / FloatDen with
\* num = int16 * GridRefine
pcm16ToFloat(buffer) ==
    [i \in 1..(Len(buffer) \div 2) |->
        getInt16(buffer[2 * i - 1], buffer[2 * i]) * GridRefine]

\* the inputs: every one-sample buffer, and longer buffers over edge values
Byte == 0..255
EdgeBytes == {0, 1, 127, 128, 255}
ByteBufs ==
    [1..2 -> Byte] \cup [1..3 -> EdgeBytes] \cup [1..4 -> EdgeBytes]

FloatGrid == (-FloatDen - Over)..(FloatDen + Over)
EdgeFloats == {-FloatDen - Over, -FloatDen, -3, 0, 3, FloatDen - 1, FloatDen + Over}
FloatBufs ==
    {<< f >> : f \in FloatGrid} \cup [1..2 -> EdgeFloats]

InitCodec ==
    /\ SessionInit /\ ~wsCtorThrows
    /\ pcmBuf = << >> /\ outBuf = << >>
    /\ \/ codecPc = "bytes" /\ byteBuf \in ByteBufs /\ floatBuf = << >>
       \/ codecPc = "floats" /\ floatBuf \in FloatBufs /\ byteBuf = << >>

\* received bytes are decoded (line 284); the floats are encoded again
Decode ==
    /\ codecPc = "bytes"
    /\ floatBuf' = pcm16ToFloat(byteBuf)
    /\ codecPc' = "decoded"
    /\ UNCHANGED << sessionVars, byteBuf, pcmBuf, outBuf >>

Reencode ==
    /\ codecPc = "decoded"
    /\ pcmBuf' = floatToPcm16(floatBuf)
    /\ outBuf' = setInt16(pcmBuf')
    /\ codecPc' = "reencoded"
    /\ UNCHANGED << sessionVars, byteBuf, floatBuf >>

\* captured floats are encoded (lines 169-174); the bytes are decoded again
Encode ==
    /\ codecPc = "floats"
    /\ pcmBuf' = floatToPcm16(floatBuf)
    /\ byteBuf' = setInt16(pcmBuf')
    /\ codecPc' = "encoded"
    /\ UNCHANGED << sessionVars, floatBuf, outBuf >>

Redecode ==
    /\ codecPc = "encoded"
    /\ outBuf' = pcm16ToFloat(byteBuf)
    /\ codecPc' = "redecoded"
    /\ UNCHANGED << sessionVars, byteBuf, floatBuf, pcmBuf >>

NextCodec == Decode \/ Reencode \/ Encode \/ Redecode

SpecCodec == InitCodec /\ [][NextCodec]_vars

\* ---- vocabulary of the properties ----
\* a channel handle that is connecting or open
ChannelLive(n) == ws[n] \in {"CONNECTING", "OPEN"}

NoLiveChannel == \A n \in Sockets : ~ChannelLive(n)

\* an audio device handle that is open: an AudioContext not closed, or a
\* getUserMedia stream whose tracks are live
CtxOpen(c) == ctxState[c] \in {"suspended", "running"}

NoOpenDevice == (\A c \in Cycles : ~CtxOpen(c)) /\ liveStreams = {}

\* every callback that was scheduled has run
Quiescent ==
    /\ isEngaged = effectEngaged
    /\ ctxClosing = {}
    /\ \A k \in Cycles : pc[k] \in {"idle", "done", "failed"}
    /\ \A n \in Sockets :
          /\ connectionTimeout[n] # "pending"
          /\ ws[n] # "CLOSING"
          /\ micPc[n] # "awaiting"

\* the WebSockets created by this step
Created == {n \in Sockets : ws[n] = "NONE" /\ ws'[n] # "NONE"}

\* the streaming state: channel open, capture and playback graph running
Streaming ==
    /\ wsRef # 0 /\ ws[wsRef] = "OPEN"
    /\ micPc[wsRef] = "granted" /\ wsRef \in liveStreams
    /\ audioContextRef # 0 /\ ctxState[audioContextRef] = "running"
    /\ captureOn[wsRef] = audioContextRef
    /\ audioContextRef \in nodeConnected

\* C1: while engaged and with no attempt ever open, connect attempts keep
\* being issued without bound.  A run refutes it by reaching a state where
\* the engaged cycle has made an attempt, none ever opened, and nothing
\* that could start another attempt is left (no channel connecting, no
\* connection timer pending).
CX_C1_RetryUnbounded ==
    ( /\ isEngaged /\ effectEngaged
      /\ everOpen = {}
      /\ \E n \in Sockets : owner[n] = cycle )
    => \E n \in Sockets :
          ws[n] = "CONNECTING" \/ connectionTimeout[n] = "pending"

\* C2: once engagement is false, no step creates a channel until
\* engagement is true again.
CX_C2_NoAttemptWhileDisengaged ==
    [][ ~isEngaged => Created = {} ]_vars

\* C3: when the current channel closes abnormally (it was not closed
\* locally, the close code is not 1000) while the session is engaged,
\* that step begins exactly one reconnect attempt.
CX_C3_OneReconnectOnAbnormalClose ==
    [][ \A n \in Sockets :
          ( /\ isEngaged /\ effectEngaged
            /\ n = wsRef /\ owner[n] = cycle
            /\ ChannelLive(n)
            /\ ws'[n] = "CLOSED" /\ closeEv'[n] # NORMAL_CLOSURE )
          => Cardinality(Created) = 1 ]_vars

\* C4: after an intentional close of the current channel (closed by
\* cleanup with code 1000, or a close event carrying code 1000) no channel
\* is created until the user engages again.
CX_C4_NoReconnectAfterNormalClose ==
    [][ ( /\ ~isEngaged
          /\ wsRef # 0
          /\ (closeReq[wsRef] = NORMAL_CLOSURE \/ closeEv[wsRef] = NORMAL_CLOSURE) )
        => Created = {} ]_vars

\* C5: engagement went off while the cycle's connect attempt was in
\* flight (cleanup closed a channel that never opened); once every
\* callback has run, no channel is connecting or open and no audio
\* device handle is open.
CX_C5_NothingLeftAfterOffInFlight ==
    ( /\ ~isEngaged
      /\ Quiescent
      /\ \E n \in Sockets :
            /\ owner[n] = cycle
            /\ closeReq[n] = NORMAL_CLOSURE
            /\ n \notin everOpen )
    => NoLiveChannel /\ NoOpenDevice

\* C6: the teardown that leaves the streaming state closes the channel
\* with code 1000, releases the audio input device, releases the playback
\* graph and leaves isTalking false.
CX_C6_DisengageFromStreaming ==
    [][ (Streaming /\ effectEngaged /\ ~effectEngaged')
        => /\ ws'[wsRef] = "CLOSING"
           /\ closeReq'[wsRef] = NORMAL_CLOSURE
           /\ wsRef \notin liveStreams'
           /\ audioContextRef \in ctxClosing'
           /\ audioContextRef \notin nodeConnected'
           /\ ~isTalking' ]_vars

\* an error happened in the current engagement cycle
AudioInitFailed == cycle >= 1 /\ pc[cycle] = "failed"

MicFailed == \E n \in Sockets : owner[n] = cycle /\ micPc[n] = "failed"

ChannelError ==
    \E n \in Sockets :
        owner[n] = cycle /\ closeReq[n] = 0 /\ closeEv[n] = ABNORMAL_CLOSURE

CtorFailed ==
    /\ cycle >= 1 /\ pc[cycle] = "done" /\ wsCtorThrows
    /\ audioContextRef = cycle /\ audioWorkletNodeRef = cycle

\* C7: after any error, once every callback has run, no channel is
\* connecting or open and no audio device handle is open.
CX_C7_ErrorsTearDown ==
    (Quiescent /\ (AudioInitFailed \/ MicFailed \/ ChannelError \/ CtorFailed))
    => NoLiveChannel /\ NoOpenDevice

\* C8: if device setup failed in the current cycle (audio graph or
\* microphone), then once every callback has run engagement is false and
\* no channel of that cycle is connecting or open.
CX_C8_SetupFailureReverts ==
    (Quiescent /\ (AudioInitFailed \/ MicFailed))
    => /\ ~isEngaged
       /\ \A n \in Sockets : owner[n] = cycle => ~ChannelLive(n)

\* C9: at most one channel exists that is not fully closed.
CX_C9_OneHandleNotClosed ==
    Cardinality({n \in Sockets : ws[n] \in {"CONNECTING", "OPEN", "CLOSING"}}) <= 1

\* C10: no timer or microphone callback of a channel made in an earlier
\* cycle acts on the handles of the current cycle: such a timer leaves the
\* current cycle's channels alone, and such a microphone callback does not
\* build its capture graph on the current cycle's AudioContext.
CX_C10_NoStaleCallback ==
    [][ \A n \in Sockets :
          (owner[n] # 0 /\ owner[n] < cycle)
          => /\ (connectionTimeout[n] = "pending" /\ connectionTimeout'[n] = "fired")
                => \A m \in Sockets : owner[m] = cycle => ws'[m] = ws[m]
             /\ (captureOn'[n] # captureOn[n]) => captureOn'[n] # cycle ]_vars

\* C11: the step that dispatches an inbound stop event posts the stop
\* (interrupt) message to the worklet node of the render pipeline in that
\* same step, and leaves the capture state, the channels, the engagement
\* flag and the transcript as they were.
C11_StopInterrupts ==
    [][ (Len(received') = Len(received) + 1
         /\ received'[Len(received')].json
         /\ received'[Len(received')].event = "stop")
        => /\ audioWorkletNodeRef # 0
           /\ port'[audioWorkletNodeRef]
                = port[audioWorkletNodeRef] \o << "stop" >>
           /\ UNCHANGED << micVars, captureVars, wsVars, isEngaged, messages >>
      ]_vars

\* a stop event has followed a media event and both reached the node's port
W_C11_StopAfterMedia ==
    /\ Len(received) = 2
    /\ received[1].event = "media" /\ received[2].event = "stop"
    /\ \E c \in Cycles : port[c] = << "data", "stop" >>

\* the text frames among the frames delivered so far, in receipt order
TextsReceived ==
    SelectSeq(received, LAMBDA m : m.json /\ m.event = "text")

\* C12: whatever frames have been delivered, the transcript holds exactly
\* one entry per text frame, in receipt order; the entry's text is the
\* frame's data and it is marked as the local speaker's exactly when the
\* frame's speaker is "user".
C12_TranscriptFollowsTexts ==
    /\ Len(messages) = Len(TextsReceived)
    /\ \A i \in 1..Len(TextsReceived) :
          /\ messages[i].text = TextsReceived[i].data
          /\ messages[i].isMine = (TextsReceived[i].speaker = "user")

\* two text frames of different speakers and texts have been dispatched
W_C12_TwoTexts ==
    /\ Len(TextsReceived) = 2
    /\ TextsReceived[1].speaker = "user" /\ TextsReceived[1].data = "Hi"
    /\ TextsReceived[2].speaker # "user" /\ TextsReceived[2].data = "Hello"
    /\ Len(messages) = 2

\* C13: the transcript is append-only: across every step (frame dispatch,
\* timeout retry, reconnect, channel close, disengage, re-engage) the
\* transcript before the step is a prefix of the transcript after it.
C13_TranscriptAppendOnly ==
    [][ /\ Len(messages) <= Len(messages')
        /\ \A i \in 1..Len(messages) : messages'[i] = messages[i] ]_vars

\* a two-entry transcript in the second cycle, after a timer fired, a
\* channel of the first cycle closed and the user re-engaged
W_C13_TranscriptSurvives ==
    /\ Len(messages) = 2
    /\ cycle = 2 /\ isEngaged
    /\ \E n \in Sockets : connectionTimeout[n] = "fired"
    /\ \E n \in Sockets : ws[n] = "CLOSED" /\ owner[n] = 1
    /\ \E n \in Sockets : ws[n] = "OPEN" /\ owner[n] = 2

\* a delivered frame that does not parse, or whose event tag is none of
\* media, text and stop
Undispatchable(m) ==
    ~m.json \/ m.event \notin {"media", "text", "stop"}

\* C14: the step that delivers a frame that fails to parse, or whose event
\* tag is none of media, text and stop, changes neither the transcript,
\* the agent-speaking indicator, the posts to the render pipeline, the
\* channels nor the engagement flag; and a well-formed frame delivered
\* after such a frame is dispatched as usual (text appended, stop posted
\* and the indicator cleared, media posted).
C14_BadFrameDropped ==
    [][ Len(received') = Len(received) + 1 =>
        LET m == received'[Len(received')]
            seenBad == \E i \in 1..Len(received) : Undispatchable(received[i])
        IN /\ Undispatchable(m)
              => UNCHANGED << messages, isTalking, port, wsVars, isEngaged >>
           /\ (seenBad /\ m.json /\ m.event = "text")
              => messages' = messages \o
                     << [isMine |-> m.speaker = "user", text |-> m.data] >>
           /\ (seenBad /\ m.json /\ m.event = "stop")
              => /\ ~isTalking'
                 /\ port'[audioWorkletNodeRef]
                      = port[audioWorkletNodeRef] \o << "stop" >>
           /\ (seenBad /\ m.json /\ m.event = "media" /\ m.data = PCM_DATA)
              => port'[audioWorkletNodeRef]
                      = port[audioWorkletNodeRef] \o << "data" >>
      ]_vars

\* an unparsable frame was delivered and dropped, and the text frame
\* delivered after it is in the transcript
W_C14_TextAfterBadFrame ==
    /\ Len(received) = 2
    /\ ~received[1].json
    /\ received[2].json /\ received[2].event = "text"
    /\ Len(messages) = 1 /\ messages[1].text = received[2].data

\* C15: a captured block is sent only if the current channel is OPEN when
\* the block is captured, and then at once; a block captured while the
\* channel is not OPEN is dropped and never sent later; the frames sent go
\* out in capture order.
C15_SendOnlyWhileOpen ==
    [][ /\ sent' # sent
           => /\ wsRef # 0 /\ ws[wsRef] = "OPEN"
              /\ captured' = captured + 1
              /\ sent' = sent \o << [ch |-> wsRef, blk |-> captured'] >>
        /\ (captured' # captured /\ ~(wsRef # 0 /\ ws[wsRef] = "OPEN"))
           => sent' = sent /\ captured' \in dropped'
        /\ \A i \in 1..Len(sent') : sent'[i].blk \notin dropped'
        /\ \A i, j \in 1..Len(sent') : i < j => sent'[i].blk < sent'[j].blk
      ]_vars

\* a block was dropped while no channel was open and a block captured
\* after the next channel opened was sent on it
W_C15_DropThenSend ==
    /\ dropped = {1}
    /\ Len(sent) = 1 /\ sent[1].blk = 2
    /\ sent[1].ch \in everOpen

\* the ways a step can be one of the writers of isTalking
MediaDelivered ==
    /\ Len(received') = Len(received) + 1
    /\ received'[Len(received')].event = "media"

StopDelivered ==
    /\ Len(received') = Len(received) + 1
    /\ received'[Len(received')].event = "stop"

\* the node's port reports needData: nothing but the indicator changes
BufferLow ==
    /\ \E c \in nodeConnected : ctxState[c] = "running"
    /\ UNCHANGED << isEngaged, effectEngaged, taskVars, audioVars, wsVars,
                    micVars, dispatchVars, captureVars >>

ChannelClosed ==
    \E n \in Sockets : ws[n] # "CLOSED" /\ ws'[n] = "CLOSED"

DisengageClicked ==
    isEngaged /\ effectEngaged /\ ~isEngaged' /\ ~effectEngaged'

\* C16 (as stated): the agent-speaking indicator is written only by the
\* render pipeline's buffer notifications (needData clears it, enqueueing a
\* received media frame sets it) and by received stop events; no channel
\* error, channel close, user toggle or timeout retry changes it.
CX_C16_OnlyBufferAndStop ==
    [][ isTalking' # isTalking
        => \/ isTalking' /\ MediaDelivered
           \/ ~isTalking' /\ (StopDelivered \/ BufferLow) ]_vars

\* C16 (amended): the indicator is set only by the dispatch of a received
\* media frame; it is cleared only by needData, by a received stop event,
\* by the error/close events of a channel and by the Disengage click.  No
\* other step (Engage click, audio setup, timeout retry, open, microphone
\* callback) changes it.
C16_TalkingWriters ==
    [][ isTalking' # isTalking
        => \/ isTalking' /\ MediaDelivered
           \/ ~isTalking' /\ (StopDelivered \/ BufferLow
                              \/ ChannelClosed \/ DisengageClicked) ]_vars

\* the indicator was set by a media frame, nothing but the channel's close
\* event came after it on that socket, and the indicator is clear
W_C16_ClearedByClose ==
    /\ Len(received) = 1 /\ received[1].event = "media"
    /\ isEngaged /\ ~isTalking
    /\ \E n \in Sockets : closeEv[n] = ABNORMAL_CLOSURE /\ n \in everOpen

\* the i-th sample of a byte buffer, read as signed 16-bit little-endian
SampleAt(buf, i) ==
    LET u == buf[2 * i - 1] + 256 * buf[2 * i]
    IN IF u >= 32768 THEN u - 65536 ELSE u

\* C17 (as stated): for every even-length byte buffer b of signed 16-bit
\* little-endian samples, encode(decode(b)) = b.
CX_C17_RoundTripExact ==
    (codecPc = "reencoded" /\ Len(byteBuf) % 2 = 0) => outBuf = byteBuf

\* C17 (amended): for every even-length byte buffer b, encode(decode(b))
\* has the length of b; each sample that is zero or negative comes back
\* unchanged and each positive sample v comes back as v - 1.
C17_RoundTripPositiveOffByOne ==
    (codecPc = "reencoded" /\ Len(byteBuf) % 2 = 0)
    => /\ Len(outBuf) = Len(byteBuf)
       /\ \A i \in 1..(Len(byteBuf) \div 2) :
             SampleAt(outBuf, i) = IF SampleAt(byteBuf, i) > 0
                                   THEN SampleAt(byteBuf, i) - 1
                                   ELSE SampleAt(byteBuf, i)

\* the samples 1 and -1 have been decoded and encoded again: 0 and -1
W_C17_OneBecomesZero ==
    /\ codecPc = "reencoded"
    /\ byteBuf = << 1, 0, 255, 255 >>
    /\ outBuf = << 0, 0, 255, 255 >>

\* the product line 63 forms for the float sample num / FloatDen
Product(num) ==
    IF clamp(num) < 0 THEN scale(clamp(num), PCM_NEG_SCALE)
    ELSE scale(clamp(num), PCM_POS_SCALE)

\* C18 (as stated): for every sample s, also outside [-1, 1] and also
\* negative with a product that is no integer, encode produces
\* floor(c < 0 ? c * 32768 : c * 32767) with c the clamped sample, and every
\* encoded sample lies in [-32768, 32767].
CX_C18_EncodeIsFloor ==
    codecPc = "encoded"
    => \A i \in 1..Len(floatBuf) :
          /\ pcmBuf[i] = Product(floatBuf[i]).floor
          /\ pcmBuf[i] \in -32768..32767

\* C18 (amended): for every sample s, encode produces the product
\* (c < 0 ? c * 32768 : c * 32767) with its fraction discarded, that is
\* rounded toward zero: the floor for c >= 0 and the ceiling for c < 0;
\* every encoded sample lies in [-32768, 32767].
C18_EncodeTruncates ==
    codecPc = "encoded"
    => /\ Len(pcmBuf) = Len(floatBuf)
       /\ \A i \in 1..Len(floatBuf) :
             LET p == Product(floatBuf[i])
             IN /\ pcmBuf[i] = IF floatBuf[i] < 0 /\ ~p.exact
                               THEN p.floor + 1 ELSE p.floor
                /\ pcmBuf[i] \in -32768..32767

\* a negative sample whose product is no integer (-3 / 65536 * 32768 =
\* -1.5) was encoded as -1, and a sample above 1 as 32767
W_C18_NegativeFraction ==
    /\ codecPc = "encoded"
    /\ floatBuf = << -3, FloatDen + Over >>
    /\ Product(-3).floor = -2 /\ ~Product(-3).exact
    /\ pcmBuf = << -1, 32767 >>

Abs(x) == IF x < 0 THEN -x ELSE x

\* C19 (as stated): for every sample s in [-1, 1] on the grid, also close
\* to +1, decode(encode(s)) differs from s by at most one 16-bit
\* quantization step, 1 / 32768 (GridRefine grid points).
CX_C19_WithinOneStep ==
    codecPc = "redecoded"
    => \A i \in 1..Len(floatBuf) :
          Abs(floatBuf[i]) <= FloatDen
          => Abs(outBuf[i] - floatBuf[i]) <= GridRefine

\* C19 (amended): for every sample s in [-1, 1], decode(encode(s)) lies
\* between s and zero; it differs from s by less than one quantization
\* step when s <= 0 and by less than two steps when s > 0.
C19_WithinTwoSteps ==
    codecPc = "redecoded"
    => /\ Len(outBuf) = Len(floatBuf)
       /\ \A i \in 1..Len(floatBuf) :
             Abs(floatBuf[i]) <= FloatDen
             => IF floatBuf[i] <= 0
                THEN /\ floatBuf[i] <= outBuf[i] /\ outBuf[i] <= 0
                     /\ outBuf[i] - floatBuf[i] < GridRefine
                ELSE /\ 0 <= outBuf[i] /\ outBuf[i] <= floatBuf[i]
                     /\ floatBuf[i] - outBuf[i] < 2 * GridRefine

\* the sample one grid point below +1 came back more than one step lower
W_C19_NearPlusOne ==
    /\ codecPc = "redecoded"
    /\ floatBuf = << FloatDen - 1 >>
    /\ floatBuf[1] - outBuf[1] > GridRefine

\* C20: the close event of a channel sets the engagement flag to false
\* exactly when its close code is 1000, whether the close was asked for
\* locally or came from the far end; with any other code the flag is left
\* as it was.
C20_CloseCodeDecides ==
    [][ \A n \in Sockets :
          (ws[n] # "CLOSED" /\ ws'[n] = "CLOSED")
          => IF closeEv'[n] = 1000
             THEN ~isEngaged'
             ELSE isEngaged' = isEngaged ]_vars

\* the flag is clear, and channels have closed with 1000 after a local
\* close(1000), with 1000 without a local close, and with another code
W_C20_BothCodes ==
    /\ ~isEngaged
    /\ \E n \in Sockets : closeEv[n] = 1000 /\ closeReq[n] = 0
    /\ \E n \in Sockets : closeEv[n] = 1000 /\ closeReq[n] = 1000
    /\ \E n \in Sockets : closeEv[n] = 1006

\* C21: once a connect attempt has reached OPEN its connection timer is
\* no longer armed (cancelled, or it had already run) and never runs
\* afterwards, so it neither closes a channel nor starts a new attempt
\* after the open.  Microphone acquisition is
\* started only by the step in which a channel goes from CONNECTING to
\* OPEN, for that channel.
C21_OpenCancelsTimerStartsMic ==
    [][ \A n \in Sockets :
          /\ n \in everOpen' => connectionTimeout'[n] # "pending"
          /\ (ws[n] = "CONNECTING" /\ ws'[n] = "OPEN"
                /\ connectionTimeout[n] = "pending")
             => connectionTimeout'[n] = "cleared"
          /\ n \in everOpen => connectionTimeout'[n] = connectionTimeout[n]
          /\ (micPc[n] = "none" /\ micPc'[n] # "none")
             => ws[n] = "CONNECTING" /\ ws'[n] = "OPEN"
          /\ micPc'[n] # "none" => n \in everOpen' ]_vars

\* a retried attempt (the first attempt's timer fired) is open with its
\* own timer cancelled and its microphone granted
W_C21_OpenedAfterRetry ==
    \E n, m \in Sockets :
        /\ connectionTimeout[m] = "fired" /\ m \notin everOpen
        /\ ws[n] = "OPEN" /\ connectionTimeout[n] = "cleared"
        /\ micPc[n] = "granted"

\* C22: in every engagement cycle the first connect attempt is made only
\* after the audio graph setup of that cycle has completed successfully:
\* while the current cycle is not torn down, a step creates a channel only
\* if that cycle's setup is done after the step, so no channel is created
\* while the setup is in progress or after it failed.
CX_C22_ConnectOnlyAfterSetup ==
    [][ (Created # {} /\ cycle >= 1 /\ isComponentMounted[cycle])
        => pc'[cycle] = "done" ]_vars

\* C23: the close event of a channel that belongs to an earlier engagement
\* cycle never changes the engagement flag of the current cycle: while the
\* session is engaged, a step in which a channel of an earlier cycle
\* reaches CLOSED leaves isEngaged as it was.
CX_C23_StaleCloseKeepsEngagement ==
    [][ \A n \in Sockets :
          (isEngaged /\ owner[n] # 0 /\ owner[n] < cycle
             /\ ws[n] # "CLOSED" /\ ws'[n] = "CLOSED")
          => isEngaged' ]_vars

\* the audio graph setup of the current cycle is still in progress
SetupInProgress ==
    cycle >= 1 /\ pc[cycle] \in {"closeOld", "addModule", "resume"}

\* C24: the session is never stuck engaged without a transport: in every
\* state where isEngaged is true, the audio setup is still in progress, or
\* a channel is connecting or open, or a connection timer is pending.
\* (Stated for the runs in which the WebSocket constructor does not throw.)
CX_C24_EngagedHasTransport ==
    (isEngaged /\ ~wsCtorThrows)
    => \/ SetupInProgress
       \/ \E n \in Sockets : ChannelLive(n)
       \/ \E n \in Sockets : connectionTimeout[n] = "pending"

\* C25: the agent-speaking indicator is true only while the session is
\* engaged: in every state where isEngaged is false, isTalking is false.
CX_C25_TalkingOnlyWhileEngaged ==
    ~isEngaged => ~isTalking

TypeOK ==
    /\ isEngaged \in BOOLEAN /\ effectEngaged \in BOOLEAN
    /\ isTalking \in BOOLEAN
    /\ cycle \in 0..MaxCycles
    /\ audioContextRef \in 0..MaxCycles
    /\ audioWorkletNodeRef \in 0..MaxCycles
    /\ wsRef \in 0..MaxSockets
    /\ \A n \in Sockets :
          ws[n] \in {"NONE", "CONNECTING", "OPEN", "CLOSING", "CLOSED"}

====
